---- MODULE Spec2Model ----
(***************************************************************************)
(* Covariate export / merge lifecycle of avoided-emissions-web.            *)
(*                                                                         *)
(* State: the covariates table (models.Covariate), the Earth Engine        *)
(* operations, the tiles in the GCS source prefix, the COGs in the S3      *)
(* destination prefix, the Celery merge queue, and the position and local  *)
(* variables of every running poll_gee_exports / auto_merge_unmerged task. *)
(* A task is split where its code reads the store, commits, and enqueues,  *)
(* so that overlapping runs interleave exactly at those points.            *)
(***************************************************************************)
EXTENDS Integers, Sequences, FiniteSets, Bags, TLC

\* ---------------------------------------------------------------- bounds
MaxRecords == 2        \* Covariate rows ever inserted (ids are never reused)
MaxTiles == 1          \* tiles of one covariate in the source prefix
MaxJobs == 2           \* run_cog_merge messages alive at one time
MaxOps == 1            \* calls of start_gee_export, force_reexport, force_remerge, discover_existing_cogs
MaxNameLen == 2        \* characters of a covariate name
MaxFileLen == 3        \* symbols of a filename under the source prefix
MaxFiles == 2          \* objects under the source prefix, for the listing functions
MaxKnown == 2          \* entries of known_covariates, for the listing functions
MaxQueue == 2          \* messages waiting in one Celery queue

\* ------------------------------------------------------------- constants
LayerOrder == <<"elev", "precip">>     \* known covariates, in sorted() order
Layers == {LayerOrder[i] : i \in 1..Len(LayerOrder)}
Pollers == {1, 2}      \* worker slots that can run poll_gee_exports
Scanners == {1, 2}     \* worker slots that can run auto_merge_unmerged

Null == -1             \* SQL NULL of an integer column
NoUrl == ""            \* SQL NULL of merged_url
NoMessage == <<>>      \* SQL NULL of error_message; a message is <<origin, length>>
ErrCap == 2000         \* str(exc)[:2000]
GeeMessages == {<<"gee", ErrCap + 1>>}   \* error.message of a failed operation
CogSize == 7           \* size in bytes of a merged COG object

\* Keys of the destination prefix, as <<folder, filename without .tif>>, in
\* the order in which S3 lists them (bak/elev.tif, elev.tif, notes.tif,
\* precip.tif). <<"", name>> is the key that the merge uploads to.
KeyOrder == << <<"bak", "elev">>, <<"", "elev">>, <<"", "notes">>, <<"", "precip">> >>
S3Keys == {KeyOrder[i] : i \in 1..Len(KeyOrder)}

Statuses ==
  {"pending_export", "exporting", "exported", "pending_merge",
   "merging", "merged", "failed", "cancelled"}

VARIABLES
  records,    \* covariates table: id -> row
  nextId,     \* next primary key
  gee,        \* Earth Engine operations: task id -> [name, state, message]
  gcs,        \* source prefix: covariate -> number of .tif tiles
  s3,         \* destination prefix: keys of the .tif objects under <prefix>/cog/
  jobs,       \* bag of run_cog_merge messages and executions
  tmp,        \* working directories that exist on the merge worker's disk
  pollPc, pollUpd, pollIds,   \* poll_gee_exports: position, dirty rows, _auto_merge_ids
  pollWarn,   \* poll_gee_exports: rows the run logged 'Failed to poll GEE status' for
  scanPc, scanNeed, scanIds,  \* auto_merge_unmerged: position, need_merge, dispatched_ids
  mergeFailed, \* history: covariates whose last merge attempt ended failed, no reset since
  quiet,       \* history: an auto_merge_unmerged run completed and nothing new since
  scanQuiet,   \* history: per run, see NotScanning
  ops,         \* history: calls made so far through the trigger surface
  exportIds,   \* what the last call of start_gee_export returned
  known,       \* tile listing: known_covariates
  objects,     \* tile listing: filenames of the objects under the source prefix
  listed,      \* tile listing: what the last listing call returned
  queues,      \* Celery lanes: queue name -> messages waiting, oldest first
  busy         \* Celery lanes: worker -> the task it is executing, "idle" if none

vars == <<records, nextId, gee, gcs, s3, jobs, tmp, pollPc, pollUpd, pollIds, pollWarn,
          scanPc, scanNeed, scanIds, mergeFailed, quiet, scanQuiet, ops, exportIds,
          known, objects, listed, queues, busy>>

\* the variables of the tile listing functions and of the Celery lanes
sideVars == <<known, objects, listed, queues, busy>>

\* ------------------------------------------------------------- the table
\* models.Covariate with the column defaults
Covariate(id, name, status, task) ==
  [name |-> name, status |-> status, gee_task_id |-> task,
   started_at |-> id, completed_at |-> FALSE, error_message |-> NoMessage,
   merged_url |-> NoUrl, size_bytes |-> Null, n_tiles |-> Null,
   tile_urls |-> Null]

Ids == DOMAIN records

\* UPDATE of the changed columns d of one row
ApplyDelta(row, d) == [f \in DOMAIN row |-> IF f \in DOMAIN d THEN d[f] ELSE row[f]]

WithStatus(S) == {r \in Ids : records[r].status \in S}
NamesWithStatus(S) == {records[r].name : r \in WithStatus(S)}
RecordsOf(l) == {r \in Ids : records[r].name = l}

\* ORDER BY started_at DESC .first() over a non-empty set of rows
Latest(R) == CHOOSE r \in R : \A q \in R : records[q].started_at <= records[r].started_at

\* key = f"{prefix}/{covariate_name}.tif" of the merged COG of a covariate
S3Key(name) == <<"", name>>

\* url and size of a listed object
ObjUrl(k) == IF k[1] = "" THEN k[2] ELSE k[1] \o "/" \o k[2]
ObjSize(k) == IF k[1] = "" THEN CogSize ELSE CogSize + 1

\* cog_merge.list_s3_cog_objects: every .tif object under the prefix, in any
\* folder; its 'covariate' is the filename without the extension
ObjCovariate(k) == k[2]
S3Covariates == {ObjCovariate(k) : k \in s3}

\* run_cog_merge.delay(id) for every id of a set
Job(r, pc, name, n) == [rec |-> r, pc |-> pc, name |-> name, n |-> n, dir |-> 0]
Enqueue(bag, ids) == bag (+) [j \in {Job(r, "queued", "", 0) : r \in ids} |-> 1]
Replace(bag, j, k) == (bag (-) SetToBag({j})) (+) SetToBag({k})
Remove(bag, j) == bag (-) SetToBag({j})

QueueRoom(k) == BagCardinality(jobs) + k <= MaxJobs

\* --------------------------------------------------------------- history
\* second: when the run listed the tiles, an earlier run had completed and
\* no tile had been added and no reset made since that run's listing;
\* fresh: no tile added and no reset made since this run's listing.
NotScanning == [second |-> FALSE, fresh |-> FALSE]

\* a tile was added or an operator reset was made
Disturbed == [a \in Scanners |-> [scanQuiet[a] EXCEPT !.fresh = FALSE]]

\* ------------------------------------------------- state after deployment
\* Empty table, no export started, nothing queued. The buckets hold what was
\* put there before the application was set up: tiles and/or a COG of the
\* first covariate.
Seeded == LayerOrder[1]

\* ---------------------------------------------------------- Celery lanes
\* celery_app.py: the queue of task_routes and Celery's default queue
QueueNames == {"merge", "celery"}
PeriodicTasks == {"poll_gee_exports", "auto_merge_unmerged"}
TaskNames == PeriodicTasks \cup {"run_cog_merge"}

\* The worker pools: one pool for the merge lane, one for everything else.
MergeWorkers == {"merge-1", "merge-2"}
DefaultWorkers == {"default-1"}
Workers == MergeWorkers \cup DefaultWorkers

NoMessages == [q \in QueueNames |-> <<>>]
AllIdle == [w \in Workers |-> "idle"]

\* no listing call made yet
NotListed == [fn |-> "none"]

Init ==
  /\ records = <<>>
  /\ nextId = 1
  /\ gee = <<>>
  /\ gcs \in {g \in [Layers -> {0, MaxTiles}] : \A l \in Layers \ {Seeded} : g[l] = 0}
  /\ s3 \in SUBSET {S3Key(Seeded)}
  /\ jobs = EmptyBag
  /\ tmp = {}
  /\ pollPc = [p \in Pollers |-> "idle"]
  /\ pollUpd = [p \in Pollers |-> <<>>]
  /\ pollIds = [p \in Pollers |-> {}]
  /\ pollWarn = [p \in Pollers |-> {}]
  /\ scanPc = [a \in Scanners |-> "idle"]
  /\ scanNeed = [a \in Scanners |-> {}]
  /\ scanIds = [a \in Scanners |-> {}]
  /\ mergeFailed = {}
  /\ quiet = FALSE
  /\ scanQuiet = [a \in Scanners |-> NotScanning]
  /\ ops = 0
  /\ exportIds = <<>>
  /\ known = {} /\ objects = {} /\ listed = NotListed
  /\ queues = NoMessages /\ busy = AllIdle

\* ------------------------------------------------ Earth Engine (external)
GeeNext(state) ==
  CASE state = "PENDING" -> {"RUNNING", "CANCELLING"}
    [] state = "RUNNING" -> {"SUCCEEDED", "FAILED", "CANCELLING"}
    [] state = "CANCELLING" -> {"CANCELLED"}
    [] OTHER -> {}

\* the export job moves to its next phase; a succeeded job has written a
\* tile, a failed job carries an error payload with a message
GeeAdvance(j) ==
  /\ \E st \in GeeNext(gee[j].state) :
     \E msg \in IF st = "FAILED" THEN GeeMessages ELSE {NoMessage} :
       /\ gee' = [gee EXCEPT ![j].state = st, ![j].message = msg]
       /\ gcs' = IF st = "SUCCEEDED" /\ gcs[gee[j].name] = 0
                 THEN [gcs EXCEPT ![gee[j].name] = 1] ELSE gcs
       /\ quiet' = (quiet /\ gcs' = gcs)
       /\ scanQuiet' = IF gcs' = gcs THEN scanQuiet ELSE Disturbed
  /\ UNCHANGED <<sideVars, tmp, ops, exportIds, records, nextId, s3, jobs, pollPc, pollUpd, pollWarn, pollIds,
                 scanPc, scanNeed, scanIds, mergeFailed>>

\* a running export job writes one more tile under <prefix>/<name>
GeeWriteTile(j) ==
  /\ gee[j].state = "RUNNING"
  /\ gcs[gee[j].name] < MaxTiles
  /\ gcs' = [gcs EXCEPT ![gee[j].name] = @ + 1]
  /\ quiet' = FALSE
  /\ scanQuiet' = Disturbed
  /\ UNCHANGED <<sideVars, tmp, ops, exportIds, records, nextId, gee, s3, jobs, pollPc, pollUpd, pollWarn, pollIds,
                 scanPc, scanNeed, scanIds, mergeFailed>>

\* ---------------------------------------------------- start_gee_export
\* names: the requested covariates; ok: how many start_export_task calls
\* succeed before one raises (ok = Len(names): none raises).
NameLists ==
  {<<l>> : l \in Layers} \cup {s \in Layers \X Layers : s[1] # s[2]}

StartedJobs(names, ok) ==
  [i \in 1..ok |-> [name |-> names[i], state |-> "PENDING", message |-> NoMessage]]

ExportRows(names) ==
  [id \in nextId..(nextId + Len(names) - 1) |->
     Covariate(id, names[id - nextId + 1], "exporting", Len(gee) + id - nextId + 1)]

\* table after start_gee_export: commit of all rows, or rollback of all
AfterExport(recs, names, ok) ==
  IF ok = Len(names) THEN ExportRows(names) @@ recs ELSE recs

\* lines 508-512: export_ids holds str(export.id) read right after
\* db.add(export); the primary key gets its default uuid4 when the row is
\* flushed, so the attribute is still None at that point
ReturnedIds(recs, names) == [i \in 1..Len(names) |-> Null]

\* what the caller holds after the call: the list returned at line 512, or
\* what it held before when the call raised
AfterReturn(recs, names, ok) ==
  IF ok = Len(names) THEN ReturnedIds(recs, names) ELSE exportIds

StartGeeExport(names, ok) ==
  /\ ops < MaxOps
  /\ ops' = ops + 1
  /\ nextId + Len(names) - 1 <= MaxRecords
  /\ Len(gee) + ok <= MaxRecords
  /\ gee' = gee \o StartedJobs(names, ok)
  /\ records' = AfterExport(records, names, ok)
  /\ exportIds' = AfterReturn(records', names, ok)
  /\ nextId' = IF ok = Len(names) THEN nextId + Len(names) ELSE nextId
  /\ UNCHANGED <<sideVars, tmp, gcs, s3, jobs, pollPc, pollUpd, pollWarn, pollIds,
                 scanPc, scanNeed, scanIds, mergeFailed, quiet, scanQuiet>>

\* ----------------------------------------------------- poll_gee_exports
\* a table that sends every phase it does not know to failed
StateMap_UnknownFails(gee_state, status) ==
  CASE gee_state = "PENDING" -> "pending_export"
    [] gee_state = "RUNNING" -> "exporting"
    [] gee_state = "SUCCEEDED" -> "exported"
    [] gee_state = "FAILED" -> "failed"
    [] gee_state = "CANCELLED" -> "cancelled"
    [] gee_state = "CANCELLING" -> "exporting"
    [] OTHER -> "failed"

\* lines 139-146, 158: state_map.get(gee_state, export.status)
StateMap(gee_state, status) ==
  CASE gee_state = "PENDING" -> "pending_export"
    [] gee_state = "RUNNING" -> "exporting"
    [] gee_state = "SUCCEEDED" -> "exported"
    [] gee_state = "FAILED" -> "failed"
    [] gee_state = "CANCELLED" -> "cancelled"
    [] gee_state = "CANCELLING" -> "exporting"
    [] OTHER -> status

\* op.get("done")
OpDone(op) == op.state \in {"SUCCEEDED", "FAILED", "CANCELLED"}

\* what the response of getOperation carries: the phase of the job, no
\* metadata.state at all, or a phase outside the keys of state_map
Shapes == {"state", "bare", "odd"}

\* lines 155-157: metadata.get("state", op.get("done") and "SUCCEEDED")
GeeState(op, shape) ==
  CASE shape = "state" -> op.state
    [] shape = "bare" -> IF OpDone(op) THEN "SUCCEEDED" ELSE "None"
    [] OTHER -> "STATE_UNSPECIFIED"

\* op.get("error"): the error payload of the operation
OpError(op) == op.message # NoMessage

\* services.list_export_tiles: the tile URLs of the covariate, or [] when
\* the listing request fails (the exception is swallowed there)
ListExportTiles(name, ok) == IF ok THEN gcs[name] ELSE 0

\* lines 166-182 without the append of line 182
ExportedBranch_NotCollected(row, listOk, cut) ==
  IF cut
  THEN [status |-> "exported", delta |-> <<>>, merge |-> FALSE]
  ELSE [status |-> "pending_merge",
        delta |-> ("tile_urls" :> ListExportTiles(row.name, listOk)), merge |-> FALSE]

\* lines 166-182, new_status == "exported": cache the tile URLs, move on to
\* pending_merge, collect the id. cut: a statement of lines 167-176 raises;
\* the handler of lines 192-198 logs it and the loop goes on, the row keeps
\* the status assigned at line 162.
ExportedBranch(row, listOk, cut) ==
  IF cut
  THEN [status |-> "exported", delta |-> <<>>, merge |-> FALSE]
  ELSE [status |-> "pending_merge",
        delta |-> ("tile_urls" :> ListExportTiles(row.name, listOk)), merge |-> TRUE]

\* Lines 153-190, one pass of the for-loop body: the columns of the row
\* that it changes, and whether the id was appended to _auto_merge_ids.
PollRow(row, op, shape, listOk, cut) ==
  LET new_status == StateMap(GeeState(op, shape), row.status)
      changed == new_status # row.status
      done == changed /\ new_status \in {"exported", "failed", "cancelled"}
      exported == changed /\ new_status = "exported"
      branch == ExportedBranch(row, listOk, cut)
      cutNow == exported /\ cut
      status1 == IF exported THEN branch.status ELSE new_status
      failNow == ~cutNow /\ OpError(op) /\ status1 = "exporting"
      status2 == IF failNow THEN "failed" ELSE status1
      dStatus == IF status2 # row.status THEN ("status" :> status2) ELSE <<>>
      dDone == IF done \/ failNow THEN ("completed_at" :> TRUE) ELSE <<>>
      dTiles == IF exported THEN branch.delta ELSE <<>>
      dErr == IF ~cutNow /\ OpError(op) THEN ("error_message" :> op.message) ELSE <<>>
  IN [delta |-> dStatus @@ dDone @@ dTiles @@ dErr,
      merge |-> exported /\ branch.merge]

Active == WithStatus({"pending_export", "exporting"})

\* a loop that ends at the first row whose getOperation call raises
Polled_AbortOnRaise(raised) ==
  {r \in Active \ raised : records[r].gee_task_id # 0 /\ \A q \in raised : r < q}

\* the rows whose loop body gets past getOperation: an exception is caught
\* per row (lines 151, 192-198) and the loop goes on with the next row
Polled(raised) == {r \in Active \ raised : records[r].gee_task_id # 0}

\* the shape of the response for row r
ShapeOf(r, bare, odd) ==
  IF r \in odd THEN "odd" ELSE IF r \in bare THEN "bare" ELSE "state"

\* lines 108-198: query the active rows and walk them; raised are the rows
\* whose getOperation call raises, cut those whose exported branch raises,
\* listFail those whose tile listing request fails, bare those whose
\* operation comes back without metadata.state, odd those whose operation
\* comes back with a phase that state_map does not have. The run logs a
\* warning for every row whose loop body raised.
PollRead(p, raised, cut, listFail, bare, odd) ==
  /\ pollPc[p] = "idle"
  /\ Active # {}
  /\ raised \subseteq Active /\ listFail \subseteq Active
  /\ cut \subseteq Active \ raised /\ bare \subseteq Active \ raised
  /\ odd \subseteq Active \ (raised \cup bare)
  /\   LET polled == Polled(raised)
           res == [r \in polled |->
                     PollRow(records[r], gee[records[r].gee_task_id],
                             ShapeOf(r, bare, odd), r \notin listFail, r \in cut)]
           dirty == {r \in polled : DOMAIN res[r].delta # {}}
       IN /\ dirty # {} \/ raised # {}
          /\ pollUpd' = [pollUpd EXCEPT ![p] = [r \in dirty |-> res[r].delta]]
          /\ pollIds' = [pollIds EXCEPT ![p] = {r \in polled : res[r].merge}]
          /\ pollWarn' = [pollWarn EXCEPT ![p] =
                            raised \cup {r \in polled \cap cut : "status" \in DOMAIN res[r].delta
                                                            /\ res[r].delta.status = "exported"}]
          /\ pollPc' = [pollPc EXCEPT ![p] = "commit"]
  /\ UNCHANGED <<sideVars, tmp, ops, exportIds, records, nextId, gee, gcs, s3, jobs,
                 scanPc, scanNeed, scanIds, mergeFailed, quiet, scanQuiet>>

\* line 200: db.commit(). An UPDATE of a row that force_reexport deleted in
\* the meantime matches no row: the flush raises, everything is rolled back
\* and the task ends without dispatching (lines 212-214).
PollCommit(p) ==
  /\ pollPc[p] = "commit"
  /\ IF DOMAIN pollUpd[p] \subseteq Ids
     THEN /\ records' = [r \in Ids |->
                           IF r \in DOMAIN pollUpd[p]
                           THEN ApplyDelta(records[r], pollUpd[p][r]) ELSE records[r]]
          /\ pollPc' = [pollPc EXCEPT ![p] = IF pollIds[p] = {} THEN "idle" ELSE "dispatch"]
          /\ pollIds' = pollIds
     ELSE /\ records' = records
          /\ pollPc' = [pollPc EXCEPT ![p] = "idle"]
          /\ pollIds' = [pollIds EXCEPT ![p] = {}]
  /\ pollUpd' = [pollUpd EXCEPT ![p] = <<>>]
  /\ pollWarn' = [pollWarn EXCEPT ![p] = {}]
  /\ UNCHANGED <<sideVars, tmp, ops, exportIds, nextId, gee, gcs, s3, jobs,
                 scanPc, scanNeed, scanIds, mergeFailed, quiet, scanQuiet>>

\* lines 203-205: run_cog_merge.delay(layer_id) for every collected id
PollDispatch(p) ==
  /\ pollPc[p] = "dispatch"
  /\ QueueRoom(Cardinality(pollIds[p]))
  /\ jobs' = Enqueue(jobs, pollIds[p])
  /\ pollIds' = [pollIds EXCEPT ![p] = {}]
  /\ pollPc' = [pollPc EXCEPT ![p] = "idle"]
  /\ UNCHANGED <<sideVars, tmp, ops, exportIds, records, nextId, gee, gcs, s3, pollUpd, pollWarn,
                 scanPc, scanNeed, scanIds, mergeFailed, quiet, scanQuiet>>

\* the worker process stops between the commit of line 200 and the calls
\* of lines 203-205: the collected ids are gone with it
PollLost(p) ==
  /\ pollPc[p] = "dispatch"
  /\ pollIds' = [pollIds EXCEPT ![p] = {}]
  /\ pollPc' = [pollPc EXCEPT ![p] = "idle"]
  /\ UNCHANGED <<sideVars, tmp, ops, exportIds, records, nextId, gee, gcs, s3, jobs, pollUpd, pollWarn,
                 scanPc, scanNeed, scanIds, mergeFailed, quiet, scanQuiet>>

\* -------------------------------------------------- auto_merge_unmerged
Rank(l) == CHOOSE i \in 1..Len(LayerOrder) : LayerOrder[i] = l

\* cog_merge.list_all_gcs_tiles then line 278: covariates with count > 0
WithTiles == {l \in Layers : gcs[l] > 0}

\* lines 286-308: need_merge; s3Ok is whether list_s3_cog_objects returned
NeedMerge(s3Ok) ==
  WithTiles \ (NamesWithStatus({"pending_merge", "merging", "merged"})
               \cup (IF s3Ok THEN S3Covariates ELSE {}))

\* lines 263-310. A failed tile listing (gcsOk = FALSE, line 272) and an
\* empty with_tiles or need_merge end the run at once.
AutoMergeScan(a, gcsOk, s3Ok) ==
  /\ scanPc[a] = "idle"
  /\   LET need == IF gcsOk THEN NeedMerge(s3Ok) ELSE {}
       IN IF need = {}
          THEN /\ quiet' = (quiet \/ gcsOk)
               /\ UNCHANGED <<ops, exportIds, scanPc, scanNeed, scanQuiet>>
          ELSE /\ scanPc' = [scanPc EXCEPT ![a] = "commit"]
               /\ scanNeed' = [scanNeed EXCEPT ![a] = need]
               /\ scanQuiet' = [scanQuiet EXCEPT ![a] = [second |-> quiet, fresh |-> TRUE]]
               /\ quiet' = quiet
  /\ UNCHANGED <<sideVars, tmp, ops, exportIds, records, nextId, gee, gcs, s3, jobs, pollPc, pollUpd, pollWarn, pollIds,
                 scanIds, mergeFailed>>

\* a loop that never looks for an exported row
ExistingExported_None(l) == 0

\* lines 314-322: the most recent exported row of the covariate, 0 if none
ExistingExported(l) ==
  LET R == {r \in RecordsOf(l) : records[r].status = "exported"}
  IN IF R = {} THEN 0 ELSE Latest(R)

\* id that line 341 obtains for covariate l of need
ScanNewId(need, l) ==
  nextId + Cardinality({m \in need : ExistingExported(m) = 0 /\ Rank(m) < Rank(l)})

\* id appended to dispatched_ids for covariate l (line 327 or line 341)
ScanIdOf(need, l) ==
  IF ExistingExported(l) # 0 THEN ExistingExported(l) ELSE ScanNewId(need, l)

\* lines 312-343: the loop over sorted(need_merge) and the commit
AutoMergeCommit(a) ==
  LET need == scanNeed[a]
      create == {l \in need : ExistingExported(l) = 0}
      reuse == {ExistingExported(l) : l \in need \ create}
  IN /\ scanPc[a] = "commit"
     /\ nextId + Cardinality(create) - 1 <= MaxRecords
     /\ records' =
          [id \in {ScanIdOf(need, l) : l \in create} |->
             Covariate(id, CHOOSE l \in create : ScanIdOf(need, l) = id,
                       "pending_merge", 0)]
          @@ [r \in Ids |-> IF r \in reuse
                            THEN ApplyDelta(records[r], "status" :> "pending_merge")
                            ELSE records[r]]
     /\ nextId' = nextId + Cardinality(create)
     /\ scanIds' = [scanIds EXCEPT ![a] = {ScanIdOf(need, l) : l \in need}]
     /\ scanNeed' = [scanNeed EXCEPT ![a] = {}]
     /\ scanPc' = [scanPc EXCEPT ![a] = "dispatch"]
     /\ UNCHANGED <<sideVars, tmp, ops, exportIds, gee, gcs, s3, jobs, pollPc, pollUpd, pollWarn, pollIds,
                    mergeFailed, quiet, scanQuiet>>

\* lines 351-355: run_cog_merge.delay(layer_id) for every dispatched id
AutoMergeDispatch(a) ==
  /\ scanPc[a] = "dispatch"
  /\ QueueRoom(Cardinality(scanIds[a]))
  /\ jobs' = Enqueue(jobs, scanIds[a])
  /\ scanIds' = [scanIds EXCEPT ![a] = {}]
  /\ scanPc' = [scanPc EXCEPT ![a] = "idle"]
  /\ quiet' = (quiet \/ scanQuiet[a].fresh)
  /\ scanQuiet' = [scanQuiet EXCEPT ![a] = NotScanning]
  /\ UNCHANGED <<sideVars, tmp, ops, exportIds, records, nextId, gee, gcs, s3, pollPc, pollUpd, pollWarn, pollIds,
                 scanNeed, mergeFailed>>

\* the worker process stops between the commit of line 343 and the calls
\* of lines 351-353
ScanLost(a) ==
  /\ scanPc[a] = "dispatch"
  /\ scanIds' = [scanIds EXCEPT ![a] = {}]
  /\ scanPc' = [scanPc EXCEPT ![a] = "idle"]
  /\ scanQuiet' = [scanQuiet EXCEPT ![a] = NotScanning]
  /\ UNCHANGED <<sideVars, tmp, ops, exportIds, records, nextId, gee, gcs, s3, jobs, pollPc, pollUpd, pollWarn,
                 pollIds, scanNeed, mergeFailed, quiet>>

\* --------------------------------------------------------- run_cog_merge
Queued == {j \in BagToSet(jobs) : j.pc = "queued"}
Merging == {j \in BagToSet(jobs) : j.pc = "merging"}
Working == {j \in BagToSet(jobs) : j.pc = "working"}
Uploaded == {j \in BagToSet(jobs) : j.pc = "uploaded"}

\* the status assigned but its commit left to the end of the attempt
ClaimedRows_NotCommitted(recs, id) == recs

\* lines 44-46: layer.status = "merging"; db.commit()
ClaimedRows(recs, id) == [recs EXCEPT ![id].status = "merging"]

\* lines 39-46: load the row; not found: return; else commit 'merging'
RunCogMergeStart(j) ==
  /\ j \in Queued
  /\ IF j.rec \in Ids
     THEN /\ records' = ClaimedRows(records, j.rec)
          /\ jobs' = Replace(jobs, j, Job(j.rec, "merging", records[j.rec].name, 0))
     ELSE /\ records' = records
          /\ jobs' = Remove(jobs, j)
  /\ UNCHANGED <<sideVars, ops, exportIds, nextId, gee, gcs, s3, tmp, pollPc, pollUpd, pollWarn, pollIds,
                 scanPc, scanNeed, scanIds, mergeFailed, quiet, scanQuiet>>

\* str(exc) stored whole
Truncate_Whole(msg, cap) == msg

\* str(exc)[:2000]
Truncate(msg, cap) == <<msg[1], IF msg[2] > cap THEN cap ELSE msg[2]>>

\* str(exc) of what a step of the merge raises: _run_cmd appends the stderr
\* of the GDAL command to its message, the other steps raise a short one
ExcMessage(step) == <<"merge", IF step = "command" THEN ErrCap + 1 ELSE 1>>

\* lines 70-82: the except branch; the row is looked up again by id
MergeFailedRows(recs, id, exc) ==
  IF id \in DOMAIN recs
  THEN [recs EXCEPT ![id] = ApplyDelta(@, [status |-> "failed",
                                           error_message |-> Truncate(exc, ErrCap),
                                           completed_at |-> TRUE])]
  ELSE recs

\* the attempt of job j ends in the except branch with exception exc
MergeRaises(j, exc) ==
  /\ records' = MergeFailedRows(records, j.rec, exc)
  /\ mergeFailed' = IF j.rec \in Ids THEN mergeFailed \cup {j.name} ELSE mergeFailed
  /\ jobs' = Remove(jobs, j)

\* a listing that is not examined before the working directory is made
TilesFound_Unchecked(name, listOk) == listOk

\* lines 442-447: the listing returned, and it is not empty
TilesFound(name, listOk) == listOk /\ gcs[name] > 0

\* tempfile.mkdtemp: a directory name that does not exist yet
MkDTemp == CHOOSE d \in 1..(MaxJobs + 1) : d \notin tmp /\ \A e \in 1..(d - 1) : e \in tmp

\* cog_merge.merge_covariate_tiles, lines 442-456: list the tiles of the
\* covariate; the request raising (listOk = FALSE) or no tile found ends
\* the attempt; otherwise the working directory is created
MergeList(j, listOk) ==
  /\ j \in Merging
  /\ IF TilesFound(j.name, listOk)
     THEN /\ Cardinality(tmp) <= MaxJobs
          /\ tmp' = tmp \cup {MkDTemp}
          /\ jobs' = Replace(jobs, j, [j EXCEPT !.pc = "working", !.n = gcs[j.name],
                                                !.dir = MkDTemp])
          /\ UNCHANGED <<records, mergeFailed>>
     ELSE /\ MergeRaises(j, ExcMessage("list"))
          /\ tmp' = tmp
  /\ UNCHANGED <<sideVars, ops, exportIds, nextId, gee, gcs, s3, pollPc, pollUpd, pollWarn, pollIds,
                 scanPc, scanNeed, scanIds, quiet, scanQuiet>>

MergeSteps == {"download", "command", "upload"}

\* a working directory that is left on the disk
WorkdirRemoved_Kept(dirs, d) == dirs

\* line 481: shutil.rmtree(workdir) in the finally clause
WorkdirRemoved(dirs, d) == dirs \ {d}

\* lines 457-481: download the listed tiles, merge them, upload <name>.tif;
\* failed: the step that raises, "none" when the upload completes. A listed
\* tile that was deleted meanwhile makes the download raise.
MergeWork(j, failed) ==
  /\ j \in Working
  /\ failed = "none" => gcs[j.name] >= j.n
  /\ tmp' = WorkdirRemoved(tmp, j.dir)
  /\ IF failed = "none"
     THEN /\ s3' = s3 \cup {S3Key(j.name)}
          /\ jobs' = Replace(jobs, j, [j EXCEPT !.pc = "uploaded", !.dir = 0])
          /\ UNCHANGED <<records, mergeFailed>>
     ELSE /\ MergeRaises(j, ExcMessage(failed))
          /\ s3' = s3
  /\ UNCHANGED <<sideVars, ops, exportIds, nextId, gee, gcs, pollPc, pollUpd, pollWarn, pollIds,
                 scanPc, scanNeed, scanIds, quiet, scanQuiet>>

\* n_tiles taken from the tile list cached at poll time
MergedFields_CachedTiles(row, j) ==
  [status |-> "merged", merged_url |-> ObjUrl(S3Key(j.name)), size_bytes |-> ObjSize(S3Key(j.name)),
   n_tiles |-> row.tile_urls, completed_at |-> TRUE]

\* lines 57-62: the columns written on success
MergedFields(row, j) ==
  [status |-> "merged", merged_url |-> ObjUrl(S3Key(j.name)), size_bytes |-> ObjSize(S3Key(j.name)),
   n_tiles |-> j.n, completed_at |-> TRUE]

\* a commit that inserts the row when it is no longer there
MergedRows_Upsert(recs, j) ==
  IF j.rec \in DOMAIN recs
  THEN [recs EXCEPT ![j.rec] = ApplyDelta(@, MergedFields(@, j))]
  ELSE (j.rec :> ApplyDelta(Covariate(j.rec, j.name, "merged", 0),
                            MergedFields(Covariate(j.rec, j.name, "merged", 0), j)))
       @@ recs

\* lines 57-62: commit 'merged'. When the row was deleted meanwhile the
\* UPDATE matches nothing, the flush raises and the except branch finds no row.
MergedRows(recs, j) ==
  IF j.rec \in DOMAIN recs
  THEN [recs EXCEPT ![j.rec] = ApplyDelta(@, MergedFields(@, j))]
  ELSE recs

RunCogMergeFinish(j) ==
  /\ j \in Uploaded
  /\ records' = MergedRows(records, j)
  /\ jobs' = Remove(jobs, j)
  /\ UNCHANGED <<sideVars, ops, exportIds, nextId, gee, gcs, s3, tmp, pollPc, pollUpd, pollWarn, pollIds,
                 scanPc, scanNeed, scanIds, mergeFailed, quiet, scanQuiet>>

\* The merge worker stops after merge_covariate_tiles has returned and
\* before the commit of line 62. again: the broker delivers the message
\* once more (acks_late, the whole worker was lost); otherwise the message
\* is acknowledged with the lost child process and is gone.
WorkerLost(j, again) ==
  /\ j \in Uploaded
  /\ jobs' = IF again THEN Replace(jobs, j, Job(j.rec, "queued", "", 0)) ELSE Remove(jobs, j)
  /\ UNCHANGED <<sideVars, ops, exportIds, records, nextId, gee, gcs, s3, tmp, pollPc, pollUpd, pollWarn, pollIds,
                 scanPc, scanNeed, scanIds, mergeFailed, quiet, scanQuiet>>

\* ------------------------------------------------- the operator's resets
\* a delete step whose exception reaches the caller
DeleteSwallowed_Propagates(raised) == ~raised

\* services.py lines 685-700 and 745-751: each delete call sits in its own
\* try/except Exception that logs a warning; the function goes on to its
\* next step whether or not the call raised
DeleteSwallowed(raised) == TRUE

\* -------------------------------------------------------- force_reexport
\* rows of covariate l removed (lines 705-712)
WithoutLayer(l) == [r \in Ids \ RecordsOf(l) |-> records[r]]

\* s3Del: delete_s3_cog removed the object (FALSE: it raised); left: tiles
\* that delete_gcs_tiles did not remove (all of them without credentials);
\* ok: 1 when the new export starts, 0 when start_export_task raises.
ForceReexport(l, s3Del, left, ok) ==
  /\ ops < MaxOps
  /\ ops' = ops + 1
  /\ nextId <= MaxRecords
  /\ Len(gee) + ok <= MaxRecords
  /\ s3' = IF s3Del THEN s3 \ {S3Key(l)} ELSE s3
  /\ IF DeleteSwallowed(~s3Del) /\ DeleteSwallowed(left = gcs[l] /\ left > 0)
     THEN /\ gcs' = [gcs EXCEPT ![l] = left]
          /\ gee' = gee \o StartedJobs(<<l>>, ok)
          /\ records' = AfterExport(WithoutLayer(l), <<l>>, ok)
          /\ exportIds' = AfterReturn(records', <<l>>, ok)
          /\ nextId' = nextId + ok
          /\ mergeFailed' = mergeFailed \ {l}
     ELSE UNCHANGED <<gcs, gee, exportIds, records, nextId, mergeFailed>>
  /\ quiet' = FALSE
  /\ scanQuiet' = Disturbed
  /\ UNCHANGED <<sideVars, tmp, jobs, pollPc, pollUpd, pollWarn, pollIds, scanPc, scanNeed, scanIds>>

\* --------------------------------------------------------- force_remerge
\* lines 757-785: id of the row reset or created
RemergeId(l) == IF RecordsOf(l) = {} THEN nextId ELSE Latest(RecordsOf(l))

\* a reset that leaves merged_url, size_bytes, error_message, completed_at
RemergeRows_StatusOnly(l) ==
  IF RecordsOf(l) = {}
  THEN (nextId :> Covariate(nextId, l, "pending_merge", 0)) @@ records
  ELSE [records EXCEPT ![Latest(RecordsOf(l))] = ApplyDelta(@, [status |-> "pending_merge"])]

\* lines 753-785: the table after the reset
RemergeRows(l) ==
  IF RecordsOf(l) = {}
  THEN (nextId :> Covariate(nextId, l, "pending_merge", 0)) @@ records
  ELSE [records EXCEPT ![Latest(RecordsOf(l))] =
          ApplyDelta(@, [status |-> "pending_merge", merged_url |-> NoUrl,
                         size_bytes |-> Null, error_message |-> NoMessage,
                         completed_at |-> FALSE])]

ForceRemerge(l, s3Del) ==
  /\ ops < MaxOps
  /\ ops' = ops + 1
  /\ RecordsOf(l) = {} => nextId <= MaxRecords
  /\ QueueRoom(1)
  /\ s3' = IF s3Del THEN s3 \ {S3Key(l)} ELSE s3
  /\ IF DeleteSwallowed(~s3Del)
     THEN /\ records' = RemergeRows(l)
          /\ nextId' = IF RecordsOf(l) = {} THEN nextId + 1 ELSE nextId
          /\ jobs' = Enqueue(jobs, {RemergeId(l)})
          /\ mergeFailed' = mergeFailed \ {l}
     ELSE UNCHANGED <<records, nextId, jobs, mergeFailed>>
  /\ quiet' = FALSE
  /\ scanQuiet' = Disturbed
  /\ UNCHANGED <<sideVars, exportIds, tmp, gee, gcs, pollPc, pollUpd, pollWarn, pollIds, scanPc, scanNeed, scanIds>>

\* ------------------------------------------------ discover_existing_cogs
KeyRank(k) == CHOOSE i \in 1..Len(KeyOrder) : KeyOrder[i] = k

\* an 'existing' set that holds the merged rows only
Tracked_MergedOnly == NamesWithStatus({"merged"})

\* lines 954-960: covariate names with a merged/merging/pending_merge row
Tracked == NamesWithStatus({"merged", "merging", "pending_merge"})

\* lines 962-965: the names of the listing that are not in 'existing'
Untracked == S3Covariates \ Tracked

\* a loop without line 979: every listed object of an untracked name
Imported_PerObject == {k \in s3 : ObjCovariate(k) \in Untracked}

\* lines 962-979: the objects that get a row; existing.add(cov_name) makes
\* every later object of the same name skip
Imported ==
  {k \in s3 : /\ ObjCovariate(k) \in Untracked
               /\ \A q \in s3 : ObjCovariate(q) = ObjCovariate(k) => KeyRank(k) <= KeyRank(q)}

DiscoverId(k) == nextId + Cardinality({q \in Imported : KeyRank(q) < KeyRank(k)})

\* lines 966-977: the row added for a listed object
DiscoveredRow(id, k) ==
  ApplyDelta(Covariate(id, ObjCovariate(k), "merged", 0),
             [merged_url |-> ObjUrl(k), size_bytes |-> ObjSize(k),
              completed_at |-> TRUE])

\* A run that lists nothing new returns [] without a commit.
DiscoverExistingCogs ==
  /\ ops < MaxOps
  /\ ops' = ops + 1
  /\ nextId + Cardinality(Imported) - 1 <= MaxRecords
  /\ records' =
       [id \in {DiscoverId(k) : k \in Imported} |->
          DiscoveredRow(id, CHOOSE k \in Imported : DiscoverId(k) = id)]
       @@ records
  /\ nextId' = nextId + Cardinality(Imported)
  /\ UNCHANGED <<sideVars, exportIds, tmp, gee, gcs, s3, jobs, pollPc, pollUpd, pollWarn, pollIds,
                 scanPc, scanNeed, scanIds, mergeFailed, quiet, scanQuiet>>

\* ------------------------------------------------ the destination bucket
\* somebody with access to the bucket puts a .tif under the COG prefix
PutObject(k) ==
  /\ k \notin s3
  /\ s3' = s3 \cup {k}
  /\ UNCHANGED <<sideVars, records, nextId, gee, gcs, jobs, tmp, pollPc, pollUpd, pollIds, pollWarn,
                 scanPc, scanNeed, scanIds, mergeFailed, quiet, scanQuiet, ops, exportIds>>

\* ------------------------------------------------------- tile listing
\* A filename is a sequence of symbols: letters, the decimal digit "0",
\* "sup2" for the superscript two (a character that str.isdigit accepts and
\* that is no decimal digit), and ".tif" for the extension. A covariate
\* name is a letter followed by letters and decimal digits.
Letters == {"a"}
NameChars == Letters \cup {"0"}
FileChars == NameChars \cup {"sup2", ".tif"}

SeqsUpTo(S, n) == UNION {[1..k -> S] : k \in 1..n}
Names == {c \in SeqsUpTo(NameChars, MaxNameLen) : c[1] \in Letters}
FileNames == SeqsUpTo(FileChars, MaxFileLen)

RECURSIVE SubsetsUpTo(_, _)
SubsetsUpTo(S, n) ==
  IF n = 0 THEN {{}}
  ELSE LET P == SubsetsUpTo(S, n - 1) IN P \cup {T \cup {x} : T \in P, x \in S}

\* fname.startswith(cov_name), name.endswith(".tif"), ch.isdigit()
StartsWith(fname, cov) == Len(fname) >= Len(cov) /\ SubSeq(fname, 1, Len(cov)) = cov
EndsWithTif(fname) == fname[Len(fname)] = ".tif"
IsDigit(ch) == ch \in {"0", "sup2"}

\* cog_merge.py lines 124-128: the test of one candidate
Matches(fname, cov) ==
  /\ StartsWith(fname, cov)
  /\ \/ fname = cov \o <<".tif">>
     \/ Len(fname) > Len(cov) /\ IsDigit(fname[Len(cov) + 1])

\* the known names, shortest first
SortedNames_ShortestFirst(K) ==
  CHOOSE q \in [1..Cardinality(K) -> K] :
    /\ \A i, j \in DOMAIN q : i # j => q[i] # q[j]
    /\ \A i, j \in DOMAIN q : i < j => Len(q[i]) <= Len(q[j])

\* line 119: sorted(known_covariates, key=len, reverse=True)
SortedNames(K) ==
  CHOOSE q \in [1..Cardinality(K) -> K] :
    /\ \A i, j \in DOMAIN q : i # j => q[i] # q[j]
    /\ \A i, j \in DOMAIN q : i < j => Len(q[i]) >= Len(q[j])

\* lines 123-130: the first candidate of the list that matches, <<>> if none
RECURSIVE FirstMatch(_, _, _)
FirstMatch(fname, names, i) ==
  IF i > Len(names) THEN <<>>
  ELSE IF Matches(fname, names[i]) THEN names[i]
  ELSE FirstMatch(fname, names, i + 1)

\* the covariate that list_all_gcs_tiles counts a filename for
CountedFor(fname, K) == FirstMatch(fname, SortedNames(K), 1)

\* lines 109-132: the counts, with an entry for every name that was matched
ListAllGcsTilesOf(files, K) ==
  LET tifs == {f \in files : EndsWithTif(f)}
      hit == {CountedFor(f, K) : f \in tifs} \ {<<>>}
  IN [c \in hit |-> Cardinality({f \in tifs : CountedFor(f, K) = c})]

\* list_gcs_tiles lines 37-64 and services.list_export_tiles lines 529-543:
\* the objects whose name starts with <prefix>/<covariate_name> and ends
\* in .tif
ListGcsTilesOf(files, cov) == {f \in files : StartsWith(f, cov) /\ EndsWithTif(f)}

ListAllGcsTiles ==
  /\ listed' = [fn |-> "all", counts |-> ListAllGcsTilesOf(objects, known)]
  /\ UNCHANGED <<records, nextId, gee, gcs, s3, jobs, tmp, pollPc, pollUpd, pollIds, pollWarn,
                 scanPc, scanNeed, scanIds, mergeFailed, quiet, scanQuiet, ops, exportIds,
                 known, objects, queues, busy>>

ListGcsTiles(cov) ==
  /\ listed' = [fn |-> "one", name |-> cov, tiles |-> ListGcsTilesOf(objects, cov)]
  /\ UNCHANGED <<records, nextId, gee, gcs, s3, jobs, tmp, pollPc, pollUpd, pollIds, pollWarn,
                 scanPc, scanNeed, scanIds, mergeFailed, quiet, scanQuiet, ops, exportIds,
                 known, objects, queues, busy>>

\* ----------------------------------------------------- routing and lanes
\* a configuration without task_routes: every task on the default queue
Route_DefaultOnly(task) == "celery"

\* celery_app.py lines 67-69: task_routes sends tasks.run_cog_merge to the
\* queue "merge"; every other task goes to Celery's default queue
Route(task) == IF task = "run_cog_merge" THEN "merge" ELSE "celery"

\* the queues a worker consumes: the merge pool serves the merge queue
\* only, the other pool serves the default queue only
Consumes(w) == IF w \in MergeWorkers THEN {"merge"} ELSE {"celery"}

storeVars == <<records, nextId, gee, gcs, s3, jobs, tmp, pollPc, pollUpd, pollIds, pollWarn,
               scanPc, scanNeed, scanIds, mergeFailed, quiet, scanQuiet, ops, exportIds>>

\* beat sends a periodic task (beat_schedule, lines 75-88), or a task calls
\* run_cog_merge.delay: the message is appended to the queue of its route
Send(task) ==
  /\ Len(queues[Route(task)]) < MaxQueue
  /\ queues' = [queues EXCEPT ![Route(task)] = Append(@, task)]
  /\ UNCHANGED <<storeVars, known, objects, listed, busy>>

\* an idle worker takes the oldest message of a queue that it consumes
\* (worker_prefetch_multiplier = 1: one message at a time)
WorkerTake(w) ==
  /\ busy[w] = "idle"
  /\ \E q \in Consumes(w) :
       /\ queues[q] # <<>>
       /\ busy' = [busy EXCEPT ![w] = Head(queues[q])]
       /\ queues' = [queues EXCEPT ![q] = Tail(@)]
  /\ UNCHANGED <<storeVars, known, objects, listed>>

\* the task that a worker executes returns
WorkerDone(w) ==
  /\ busy[w] # "idle"
  /\ busy' = [busy EXCEPT ![w] = "idle"]
  /\ UNCHANGED <<storeVars, known, objects, listed, queues>>

\* ----------------------------------------------------------- the system
\* Celery beat starts each periodic task again only after its previous run
\* has returned (one slot per task); the tasks, the merge workers, the
\* operator and Earth Engine interleave freely.
Next ==
  \/ \E j \in DOMAIN gee : GeeAdvance(j)
  \/ \E j \in DOMAIN gee : GeeWriteTile(j)
  \/ \E names \in NameLists : \E ok \in 0..Len(names) : StartGeeExport(names, ok)
  \/ \E raised \in SUBSET Active : \E cut \in SUBSET (Active \ raised) :
       \E listFail \in SUBSET (Active \ (raised \cup cut)) :
         \E bare \in SUBSET (Active \ raised) : \E odd \in SUBSET (Active \ (raised \cup bare)) :
           PollRead(1, raised, cut, listFail, bare, odd)
  \/ PollCommit(1)
  \/ PollDispatch(1)
  \/ \E gcsOk \in BOOLEAN : \E s3Ok \in BOOLEAN : AutoMergeScan(1, gcsOk, s3Ok)
  \/ AutoMergeCommit(1)
  \/ AutoMergeDispatch(1)
  \/ \E j \in BagToSet(jobs) : RunCogMergeStart(j)
  \/ \E j \in BagToSet(jobs) : \E listOk \in BOOLEAN : MergeList(j, listOk)
  \/ \E j \in BagToSet(jobs) : \E failed \in MergeSteps \cup {"none"} : MergeWork(j, failed)
  \/ \E j \in BagToSet(jobs) : RunCogMergeFinish(j)
  \/ \E l \in Layers : \E s3Del \in BOOLEAN : \E left \in 0..gcs[l] : \E ok \in {0, 1} :
       ForceReexport(l, s3Del, left, ok)
  \/ \E l \in Layers : \E s3Del \in BOOLEAN : ForceRemerge(l, s3Del)
  \/ DiscoverExistingCogs

Spec == Init /\ [][Next]_vars

\* A run of a periodic task that outlasts its period overlaps the next run
\* (two slots per task). The requests of the poller succeed here.
NextOverlap ==
  \/ \E j \in DOMAIN gee : GeeAdvance(j)
  \/ \E l \in Layers : StartGeeExport(<<l>>, 1)
  \/ \E p \in Pollers : PollRead(p, {}, {}, {}, {}, {})
  \/ \E p \in Pollers : PollCommit(p)
  \/ \E p \in Pollers : PollDispatch(p)
  \/ \E a \in Scanners : \E gcsOk \in BOOLEAN : \E s3Ok \in BOOLEAN :
       AutoMergeScan(a, gcsOk, s3Ok)
  \/ \E a \in Scanners : AutoMergeCommit(a)
  \/ \E a \in Scanners : AutoMergeDispatch(a)
  \/ \E j \in BagToSet(jobs) : RunCogMergeStart(j)
  \/ \E j \in BagToSet(jobs) : MergeList(j, TRUE)
  \/ \E j \in BagToSet(jobs) : \E failed \in {"none", "command"} : MergeWork(j, failed)
  \/ \E j \in BagToSet(jobs) : RunCogMergeFinish(j)

SpecOverlap == Init /\ [][NextOverlap]_vars

\* The system left to itself: exports are started, but nobody calls
\* force_reexport, force_remerge or discover_existing_cogs (no caller and no
\* beat_schedule entry runs them). Beat keeps firing the two periodic tasks
\* and the merge worker keeps consuming its queue.
NextUnattended ==
  \/ \E j \in DOMAIN gee : GeeAdvance(j)
  \/ \E j \in DOMAIN gee : GeeWriteTile(j)
  \/ \E names \in NameLists : \E ok \in 0..Len(names) : StartGeeExport(names, ok)
  \/ \E raised \in SUBSET Active : \E cut \in SUBSET (Active \ raised) :
       \E listFail \in SUBSET (Active \ (raised \cup cut)) :
         \E bare \in SUBSET (Active \ raised) : \E odd \in SUBSET (Active \ (raised \cup bare)) :
           PollRead(1, raised, cut, listFail, bare, odd)
  \/ PollCommit(1)
  \/ PollDispatch(1)
  \/ \E gcsOk \in BOOLEAN : \E s3Ok \in BOOLEAN : AutoMergeScan(1, gcsOk, s3Ok)
  \/ AutoMergeCommit(1)
  \/ AutoMergeDispatch(1)
  \/ \E j \in BagToSet(jobs) : RunCogMergeStart(j)
  \/ \E j \in BagToSet(jobs) : \E listOk \in BOOLEAN : MergeList(j, listOk)
  \/ \E j \in BagToSet(jobs) : \E failed \in MergeSteps \cup {"none"} : MergeWork(j, failed)
  \/ \E j \in BagToSet(jobs) : RunCogMergeFinish(j)

\* Every scheduled run eventually happens; nothing promises that a request
\* to Earth Engine or to a bucket ever fails, so the runs that are owed are
\* those in which the requests succeed.
Fairness ==
  /\ WF_vars(PollRead(1, {}, {}, {}, {}, {})) /\ WF_vars(PollCommit(1)) /\ WF_vars(PollDispatch(1))
  /\ WF_vars(AutoMergeScan(1, TRUE, TRUE)) /\ WF_vars(AutoMergeCommit(1))
  /\ WF_vars(AutoMergeDispatch(1))
  /\ WF_vars(\E j \in BagToSet(jobs) : RunCogMergeStart(j))
  /\ WF_vars(\E j \in BagToSet(jobs) : MergeList(j, TRUE))
  /\ WF_vars(\E j \in BagToSet(jobs) : MergeWork(j, "none"))
  /\ WF_vars(\E j \in BagToSet(jobs) : RunCogMergeFinish(j))

SpecLive == Init /\ [][NextUnattended]_vars /\ Fairness

\* The export side alone: exports are started and reset, Earth Engine runs
\* them, the poller follows them and the merge worker consumes what the
\* poller enqueues.
NextPoll ==
  \/ \E j \in DOMAIN gee : GeeAdvance(j)
  \/ \E j \in DOMAIN gee : GeeWriteTile(j)
  \/ \E names \in NameLists : \E ok \in 0..Len(names) : StartGeeExport(names, ok)
  \/ \E raised \in SUBSET Active : \E cut \in SUBSET (Active \ raised) :
       \E listFail \in SUBSET (Active \ (raised \cup cut)) :
         \E bare \in SUBSET (Active \ raised) : \E odd \in SUBSET (Active \ (raised \cup bare)) :
           PollRead(1, raised, cut, listFail, bare, odd)
  \/ PollCommit(1)
  \/ PollDispatch(1)
  \/ \E j \in BagToSet(jobs) : RunCogMergeStart(j)
  \/ \E j \in BagToSet(jobs) : \E listOk \in BOOLEAN : MergeList(j, listOk)
  \/ \E j \in BagToSet(jobs) : \E failed \in MergeSteps \cup {"none"} : MergeWork(j, failed)
  \/ \E j \in BagToSet(jobs) : RunCogMergeFinish(j)
  \/ \E l \in Layers : \E s3Del \in BOOLEAN : \E left \in 0..gcs[l] : \E ok \in {0, 1} :
       ForceReexport(l, s3Del, left, ok)

SpecPoll == Init /\ [][NextPoll]_vars

\* The merge side alone: the tiles and COGs found at deployment, the scan
\* that picks them up, the merge worker, and the operator's resets.
NextMerge ==
  \/ \E gcsOk \in BOOLEAN : \E s3Ok \in BOOLEAN : AutoMergeScan(1, gcsOk, s3Ok)
  \/ AutoMergeCommit(1)
  \/ AutoMergeDispatch(1)
  \/ \E j \in BagToSet(jobs) : RunCogMergeStart(j)
  \/ \E j \in BagToSet(jobs) : \E listOk \in BOOLEAN : MergeList(j, listOk)
  \/ \E j \in BagToSet(jobs) : \E failed \in MergeSteps \cup {"none"} : MergeWork(j, failed)
  \/ \E j \in BagToSet(jobs) : RunCogMergeFinish(j)
  \/ \E l \in Layers : \E s3Del \in BOOLEAN : \E left \in 0..gcs[l] : \E ok \in {0, 1} :
       ForceReexport(l, s3Del, left, ok)
  \/ \E l \in Layers : \E s3Del \in BOOLEAN : ForceRemerge(l, s3Del)
  \/ DiscoverExistingCogs

SpecMerge == Init /\ [][NextMerge]_vars

\* The merge side left to itself: exports run at Earth Engine and leave
\* tiles, the scan picks them up and the merge worker merges them; no poll
\* run and no operator reset takes place.
NextScanMerge ==
  \/ \E j \in DOMAIN gee : GeeAdvance(j)
  \/ \E l \in Layers : StartGeeExport(<<l>>, 1)
  \/ \E gcsOk \in BOOLEAN : \E s3Ok \in BOOLEAN : AutoMergeScan(1, gcsOk, s3Ok)
  \/ AutoMergeCommit(1)
  \/ AutoMergeDispatch(1)
  \/ \E j \in BagToSet(jobs) : RunCogMergeStart(j)
  \/ \E j \in BagToSet(jobs) : \E listOk \in BOOLEAN : MergeList(j, listOk)
  \/ \E j \in BagToSet(jobs) : \E failed \in MergeSteps \cup {"none"} : MergeWork(j, failed)
  \/ \E j \in BagToSet(jobs) : RunCogMergeFinish(j)

SpecScanMerge == Init /\ [][NextScanMerge]_vars

\* The scan next to the poller: exports run, a poll run can break off in
\* its exported branch and leave the row exported, the scan picks up tiles
\* with and without such a row, and the merge worker consumes the queue.
NextScan ==
  \/ \E j \in DOMAIN gee : GeeAdvance(j)
  \/ \E l \in Layers : StartGeeExport(<<l>>, 1)
  \/ \E cut \in SUBSET Active : PollRead(1, {}, cut, {}, {}, {})
  \/ PollCommit(1)
  \/ PollDispatch(1)
  \/ \E gcsOk \in BOOLEAN : \E s3Ok \in BOOLEAN : AutoMergeScan(1, gcsOk, s3Ok)
  \/ AutoMergeCommit(1)
  \/ AutoMergeDispatch(1)
  \/ \E j \in BagToSet(jobs) : RunCogMergeStart(j)
  \/ \E j \in BagToSet(jobs) : MergeList(j, TRUE)
  \/ \E j \in BagToSet(jobs) : \E failed \in {"none", "command"} : MergeWork(j, failed)
  \/ \E j \in BagToSet(jobs) : RunCogMergeFinish(j)

SpecScan == Init /\ [][NextScan]_vars

\* The destination bucket and its import: objects are put under the COG
\* prefix by hand, the scan and the merge worker produce rows and COGs, the
\* operator resets a merge, and discover_existing_cogs is run.
NextDiscover ==
  \/ \E k \in S3Keys : PutObject(k)
  \/ DiscoverExistingCogs
  \/ \E gcsOk \in BOOLEAN : \E s3Ok \in BOOLEAN : AutoMergeScan(1, gcsOk, s3Ok)
  \/ AutoMergeCommit(1)
  \/ AutoMergeDispatch(1)
  \/ \E j \in BagToSet(jobs) : RunCogMergeStart(j)
  \/ \E j \in BagToSet(jobs) : \E listOk \in BOOLEAN : MergeList(j, listOk)
  \/ \E j \in BagToSet(jobs) : \E failed \in MergeSteps \cup {"none"} : MergeWork(j, failed)
  \/ \E j \in BagToSet(jobs) : RunCogMergeFinish(j)
  \/ \E l \in Layers : \E s3Del \in BOOLEAN : ForceRemerge(l, s3Del)

SpecDiscover == Init /\ [][NextDiscover]_vars

\* The system left to itself with workers that can stop at any time: a
\* periodic task between its commit and its enqueue, the merge worker
\* between the upload and its commit. discover_existing_cogs is run by hand.
NextCrash ==
  \/ \E j \in DOMAIN gee : GeeAdvance(j)
  \/ \E l \in Layers : StartGeeExport(<<l>>, 1)
  \/ PollRead(1, {}, {}, {}, {}, {})
  \/ PollCommit(1)
  \/ PollDispatch(1)
  \/ PollLost(1)
  \/ \E gcsOk \in BOOLEAN : \E s3Ok \in BOOLEAN : AutoMergeScan(1, gcsOk, s3Ok)
  \/ AutoMergeCommit(1)
  \/ AutoMergeDispatch(1)
  \/ ScanLost(1)
  \/ \E j \in BagToSet(jobs) : RunCogMergeStart(j)
  \/ \E j \in BagToSet(jobs) : MergeList(j, TRUE)
  \/ \E j \in BagToSet(jobs) : \E failed \in {"none", "command"} : MergeWork(j, failed)
  \/ \E j \in BagToSet(jobs) : RunCogMergeFinish(j)
  \/ \E j \in BagToSet(jobs) : \E again \in BOOLEAN : WorkerLost(j, again)
  \/ DiscoverExistingCogs

SpecCrash == Init /\ [][NextCrash]_vars /\ Fairness

\* The listing functions alone, on every bucket content and every list of
\* known covariates within the bounds.
InitListing ==
  /\ records = <<>> /\ nextId = 1 /\ gee = <<>>
  /\ gcs = [l \in Layers |-> 0] /\ s3 = {}
  /\ jobs = EmptyBag /\ tmp = {}
  /\ pollPc = [p \in Pollers |-> "idle"] /\ pollUpd = [p \in Pollers |-> <<>>]
  /\ pollIds = [p \in Pollers |-> {}] /\ pollWarn = [p \in Pollers |-> {}]
  /\ scanPc = [a \in Scanners |-> "idle"] /\ scanNeed = [a \in Scanners |-> {}]
  /\ scanIds = [a \in Scanners |-> {}]
  /\ mergeFailed = {} /\ quiet = FALSE /\ scanQuiet = [a \in Scanners |-> NotScanning]
  /\ ops = 0 /\ exportIds = <<>>
  /\ queues = NoMessages /\ busy = AllIdle
  /\ known \in SubsetsUpTo(Names, MaxKnown) \ {{}}
  /\ objects \in SubsetsUpTo(FileNames, MaxFiles)
  /\ listed = NotListed

NextListing ==
  \/ ListAllGcsTiles
  \/ \E cov \in known : ListGcsTiles(cov)

SpecListing == InitListing /\ [][NextListing]_vars

\* The lanes alone: beat and the tasks send messages, the workers take and
\* execute them. A poll or a scan returns; a merge may never return.
NextLanes ==
  \/ \E task \in TaskNames : Send(task)
  \/ \E w \in Workers : WorkerTake(w)
  \/ \E w \in Workers : WorkerDone(w)

LaneFairness ==
  /\ \A w \in Workers : WF_vars(WorkerTake(w))
  /\ \A w \in Workers : WF_vars(busy[w] \in PeriodicTasks /\ WorkerDone(w))

SpecLanes == Init /\ [][NextLanes]_vars /\ LaneFairness

TypeOK ==
  /\ \A r \in Ids : records[r].status \in Statuses
  /\ nextId \in 1..(MaxRecords + 1)
  /\ BagCardinality(jobs) <= MaxJobs

\* ======================================================= the properties
\* position of a status on PendingExport -> ... -> Merged; 0 off the chain
StatusRank(st) ==
  CASE st = "pending_export" -> 1
    [] st = "exporting" -> 2
    [] st = "exported" -> 3
    [] st = "pending_merge" -> 4
    [] st = "merging" -> 5
    [] st = "merged" -> 6
    [] OTHER -> 0

InFlight == {"pending_export", "exporting", "exported", "pending_merge", "merging"}

Forward(old, new) ==
  \/ new = old
  \/ StatusRank(old) > 0 /\ StatusRank(new) > StatusRank(old)
  \/ old \in InFlight /\ new \in {"failed", "cancelled"}

\* the step is a call of force_reexport or force_remerge
ForceStep ==
  \/ \E l \in Layers : \E s3Del \in BOOLEAN : \E left \in 0..gcs[l] : \E ok \in {0, 1} :
       ForceReexport(l, s3Del, left, ok)
  \/ \E l \in Layers : \E s3Del \in BOOLEAN : ForceRemerge(l, s3Del)

\* C1: every status change of a row that is not made by force_reexport or
\* force_remerge moves the row forward along the chain, or from an
\* in-flight status to failed / cancelled.
C1_ForwardOnly ==
  [][ForceStep \/ \A r \in Ids \cap DOMAIN records' :
        Forward(records[r].status, records'[r].status)]_vars

MergeSet == {"pending_merge", "merging"}

\* C2: for every covariate at most one row is in pending_merge or merging.
C2_OneMergePerLayer ==
  \A l \in Layers :
    Cardinality({r \in RecordsOf(l) : records[r].status \in MergeSet}) <= 1

\* C3: a row in merged or failed is left as it is by every step that is not
\* a call of force_reexport or force_remerge.
C3_TerminalStays ==
  [][ForceStep \/ \A r \in Ids :
        records[r].status \in {"merged", "failed"}
          => r \in DOMAIN records' /\ records'[r] = records[r]]_vars

\* room in the table for one new row per covariate
RowsLeft == nextId + Cardinality(Layers) - 1 <= MaxRecords

\* C4: a covariate that keeps having tiles in the source prefix eventually
\* has a row in pending_merge, merging or merged (stated for the behaviours
\* in which the table never runs out of room).
C4_TilesGetMerged ==
  \A l \in Layers :
    <>(gcs[l] = 0 \/ ~RowsLeft
       \/ l \in NamesWithStatus({"pending_merge", "merging", "merged"}))

\* the step enqueues a run_cog_merge message for a row of covariate l
Dispatches(l) ==
  \E r \in DOMAIN records' :
    /\ records'[r].name = l
    /\ CopiesIn(Job(r, "queued", "", 0), jobs') > CopiesIn(Job(r, "queued", "", 0), jobs)

\* C6: once a merge attempt of a covariate has ended failed, no message is
\* enqueued for that covariate except by force_remerge (force_reexport and
\* force_remerge end the restriction).
C6_NoAutomaticRetry ==
  [][\A l \in mergeFailed : Dispatches(l) => ForceStep]_vars

\* C5: a run of auto_merge_unmerged that lists the tiles after an earlier
\* run has completed, with no tile added in between, finds need_merge empty
\* (it creates no row and dispatches nothing).
C5_SecondRunIdle ==
  \A a \in Scanners : scanPc[a] \in {"commit", "dispatch"} => ~scanQuiet[a].second

\* C9: two runs of poll_gee_exports in flight never both hold the same row
\* id in _auto_merge_ids (each run enqueues every id it holds).
C9_OverlappingPolls ==
  \A p \in Pollers : \A q \in Pollers \ {p} :
    pollPc[p] = "dispatch" /\ pollPc[q] = "dispatch" => pollIds[p] \cap pollIds[q] = {}

ScanLayers(a) == {records[r].name : r \in scanIds[a] \cap Ids}

\* C10: two runs of auto_merge_unmerged in flight never both hold a row of
\* the same covariate in dispatched_ids.
C10_OverlappingScans ==
  \A a \in Scanners : \A b \in Scanners \ {a} :
    scanPc[a] = "dispatch" /\ scanPc[b] = "dispatch" => ScanLayers(a) \cap ScanLayers(b) = {}

\* C7: no committed state of the table holds a row in exported: the poll
\* cycle that assigns exported assigns pending_merge before its commit,
\* also when an exception is raised for the row after the assignment.
C7_NeverExported == \A r \in Ids : records[r].status # "exported"

Succeeded(r) ==
  /\ r \in Active
  /\ records[r].gee_task_id # 0
  /\ gee[records[r].gee_task_id].state = "SUCCEEDED"

QueuedFor(bag, r) == CopiesIn(Job(r, "queued", "", 0), bag)

OpOf(r) == gee[records[r].gee_task_id]

\* the step is the read phase of a poll run of slot p that gets an answer
\* for the rows in answered
PollReads(p, answered) ==
  /\ pollPc[p] = "idle" /\ pollPc'[p] = "commit"
  /\ \E cut \in SUBSET answered : \E listFail \in SUBSET answered :
       \E bare \in SUBSET answered :
         PollRead(p, {r \in Active : records[r].gee_task_id # 0} \ answered, cut, listFail, bare, {})

\* C11: a poll cycle that gets an error payload for a row in exporting
\* updates the row to failed, with the message of the payload as
\* error_message and completed_at set.
C11_ErrorFails ==
  [][\A p \in Pollers : \A answered \in SUBSET Active :
       PollReads(p, answered) =>
         \A r \in answered :
           records[r].status = "exporting" /\ OpError(OpOf(r)) =>
             /\ r \in DOMAIN pollUpd'[p]
             /\ DOMAIN pollUpd'[p][r] = {"status", "error_message", "completed_at"}
             /\ pollUpd'[p][r].status = "failed"
             /\ pollUpd'[p][r].error_message = OpOf(r).message
             /\ pollUpd'[p][r].completed_at
    ]_vars

\* C12: a poll cycle that gets, for a row in pending_export or exporting, an
\* operation with an error payload or in the FAILED phase updates the row to
\* failed and does not collect it for a merge.
C12_FailureTerminal ==
  [][\A p \in Pollers : \A answered \in SUBSET Active :
       PollReads(p, answered) =>
         \A r \in answered :
           OpError(OpOf(r)) \/ OpOf(r).state = "FAILED" =>
             /\ r \in DOMAIN pollUpd'[p]
             /\ "status" \in DOMAIN pollUpd'[p][r]
             /\ pollUpd'[p][r].status = "failed"
             /\ r \notin pollIds'[p]
    ]_vars

\* C13: in a poll cycle in which getOperation raises for some rows, every
\* other active row is polled: its update and its collection for a merge are
\* what the loop body yields for it, and the commit writes the updates of
\* the cycle to the table (unless a polled row was deleted in between).
C13_PollIsolation ==
  [][\A p \in Pollers :
       /\ pollPc[p] = "idle" /\ pollPc'[p] = "commit" =>
              \A r \in Active \ (pollWarn'[p] \ DOMAIN pollUpd'[p]) :
                records[r].gee_task_id # 0 =>
                  \E shape \in Shapes : \E listOk \in BOOLEAN : \E cut \in BOOLEAN :
                    LET res == PollRow(records[r], OpOf(r), shape, listOk, cut)
                    IN /\ DOMAIN res.delta # {} =>
                            r \in DOMAIN pollUpd'[p] /\ pollUpd'[p][r] = res.delta
                       /\ DOMAIN res.delta = {} => r \notin DOMAIN pollUpd'[p]
                       /\ res.merge <=> r \in pollIds'[p]
       /\ pollPc[p] = "commit" /\ pollPc'[p] # "commit" /\ DOMAIN pollUpd[p] \subseteq Ids =>
            \A r \in Ids :
              records'[r] = IF r \in DOMAIN pollUpd[p]
                            THEN ApplyDelta(records[r], pollUpd[p][r]) ELSE records[r]
    ]_vars

\* a run is about to commit the update of a row that comes, in the loop,
\* after a row for which getOperation raised
C13_Witness ==
  /\ pollPc[1] = "commit"
  /\ \E r \in pollWarn[1] \ DOMAIN pollUpd[1] :
       \E q \in DOMAIN pollUpd[1] : r < q /\ "status" \in DOMAIN pollUpd[1][q]

\* C14: while nobody resets rows, the row of every run_cog_merge attempt
\* that has passed its first commit -- before the tile listing ("merging")
\* as well as during and after the bucket operations ("working",
\* "uploaded") -- is in status merging in the table, where a scan reads it.
C14_MergingBeforeIO ==
  \A j \in BagToSet(jobs) :
    j.pc \in {"merging", "working", "uploaded"} =>
      j.rec \in Ids /\ records[j.rec].status = "merging"

\* an attempt is between its tile listing and its upload while a scan that
\* has read the table is in flight and has left the covariate out
C14_Witness ==
  \E j \in Working :
    /\ records[j.rec].status = "merging"
    /\ scanPc[1] = "commit"
    /\ j.name \notin scanNeed[1]

JobStep(j) ==
  \/ RunCogMergeStart(j)
  \/ \E listOk \in BOOLEAN : MergeList(j, listOk)
  \/ \E failed \in MergeSteps \cup {"none"} : MergeWork(j, failed)
  \/ RunCogMergeFinish(j)

\* the step is execution j ending because a step of the merge raised
MergeStepRaises(j) ==
  \/ (\E listOk \in BOOLEAN : MergeList(j, listOk)) /\ jobs' = Remove(jobs, j)
  \/ \E failed \in MergeSteps : MergeWork(j, failed)

\* C16: when the tile listing, a download, the GDAL command or the upload
\* of an attempt raises, the attempt ends with its row in failed, with an
\* error_message of at most 2000 characters and with completed_at set.
C16_FailedMerge ==
  [][\A j \in BagToSet(jobs) :
       MergeStepRaises(j) /\ j.rec \in Ids =>
         /\ records'[j.rec].status = "failed"
         /\ records'[j.rec].error_message # NoMessage
         /\ records'[j.rec].error_message[2] >= 1
         /\ records'[j.rec].error_message[2] <= ErrCap
         /\ records'[j.rec].completed_at
         /\ CopiesIn(j, jobs') = CopiesIn(j, jobs) - 1
    ]_vars

\* the GDAL command of an attempt failed with a message longer than the
\* cap: the row is failed and holds the first 2000 characters
C16_Witness ==
  \E r \in Ids :
    /\ records[r].status = "failed"
    /\ records[r].error_message = <<"merge", ErrCap>>
    /\ records[r].completed_at
    /\ \A j \in BagToSet(jobs) : j.rec # r

\* C17: an attempt that lists the tiles of a covariate that has none ends
\* there: its row is failed, no working directory is created (so nothing is
\* downloaded) and nothing is uploaded.
C17_NoTiles ==
  [][\A j \in Merging :
       gcs[j.name] = 0 /\ (\E listOk \in BOOLEAN : MergeList(j, listOk)) =>
         /\ j.rec \in Ids => records'[j.rec].status = "failed"
         /\ jobs' = Remove(jobs, j)
         /\ tmp' = tmp
         /\ s3' = s3
    ]_vars

\* an attempt for a covariate without tiles has ended: the row is failed,
\* the destination has no COG of it and no working directory exists
C17_Witness ==
  \E r \in Ids :
    /\ records[r].status = "failed"
    /\ records[r].error_message = <<"merge", 1>>
    /\ gcs[records[r].name] = 0
    /\ S3Key(records[r].name) \notin s3
    /\ tmp = {}
    /\ jobs = EmptyBag

\* C18: an execution of run_cog_merge whose row does not exist -- at its
\* start, or because the row was deleted while it ran -- changes no row and
\* creates none; when the row is missing at the start it ends at once,
\* without touching the buckets or the disk.
C18_RecordNotFound ==
  [][\A j \in BagToSet(jobs) :
       j.rec \notin Ids /\ JobStep(j) =>
         /\ records' = records
         /\ j.pc = "queued" => jobs' = Remove(jobs, j) /\ s3' = s3 /\ tmp' = tmp
         /\ j.pc = "uploaded" => jobs' = Remove(jobs, j)
    ]_vars

\* the row of an attempt was deleted while the attempt was merging; the
\* attempt has uploaded and is about to write its result
C18_Witness ==
  \E j \in Uploaded : j.rec \notin Ids /\ S3Key(j.name) \in s3

\* C19: the working directories on the disk are exactly those of the
\* attempts that are between mkdtemp and the end of merge_covariate_tiles,
\* one directory per attempt and no directory for two attempts.
C19_Workdir ==
  /\ tmp = {j.dir : j \in Working}
  /\ \A j \in Working : j.dir # 0 /\ CopiesIn(j, jobs) = 1
  /\ \A j \in Working : \A k \in Working : j # k => j.dir # k.dir
  /\ \A j \in BagToSet(jobs) \ Working : j.dir = 0

\* one attempt has failed in the GDAL command, after its directory was
\* made, and another attempt is at work: the only directory is its own
C19_Witness ==
  /\ \E r \in Ids : records[r].error_message = <<"merge", ErrCap>>
  /\ \E j \in Working : tmp = {j.dir}

\* C20: the covariates a run of auto_merge_unmerged decides to create or
\* advance a row and dispatch a merge for (need_merge) contain none that,
\* when the run reads the table and the destination, has a row in
\* pending_merge, merging or merged, or has a COG in the destination.
C20_ScanExclusions ==
  [][\A a \in Scanners :
       scanPc[a] = "idle" /\ scanPc'[a] = "commit" =>
         scanNeed'[a] \cap (NamesWithStatus({"pending_merge", "merging", "merged"}) \cup S3Covariates)
           = {}
    ]_vars

\* C21: for every covariate of need_merge, a run of auto_merge_unmerged
\* moves the most recent exported row of the covariate to pending_merge and
\* inserts nothing when such a row exists, and otherwise inserts exactly
\* one pending_merge row; after the commit it enqueues exactly one
\* run_cog_merge message per covariate, with the id of that row.
ExportedOf(l) == {r \in RecordsOf(l) : records[r].status = "exported"}

InsertedFor(l) == {q \in DOMAIN records' \ Ids : records'[q].name = l}

DiscoverRun ==
  ops' = ops + 1 /\ s3' = s3 /\ jobs' = jobs /\ gee' = gee /\ gcs' = gcs
  /\ \A r \in Ids : r \in DOMAIN records' /\ records'[r].status = records[r].status

\* names that have an object in the destination prefix and no row in
\* merged, merging or pending_merge
Orphans ==
  {ObjCovariate(k) : k \in s3}
    \ {records[r].name : r \in {q \in Ids : records[q].status \in {"merged", "merging", "pending_merge"}}}

Discovered(c) == {q \in DOMAIN records' \ Ids : records'[q].name = c}

C24_KnownLayersOnly ==
  [][DiscoverRun =>
       \A q \in DOMAIN records' \ Ids : records'[q].name \in Layers]_vars

\* rows left in merging by a merge worker that stopped after the upload:
\* the COG is in the destination and no message for the row is left
StuckMerging ==
  {r \in Ids : /\ records[r].status = "merging"
               /\ S3Key(records[r].name) \in s3
               /\ \A j \in BagToSet(jobs) : j.rec # r}

\* C25: when a row was left in merging by a merge worker that stopped after
\* uploading the COG, a run of discover_existing_cogs leaves the covariate
\* with a row in merged.
C25_DiscoverRecovers ==
  [][DiscoverRun =>
       \A r \in StuckMerging :
         \E q \in DOMAIN records' :
           records'[q].name = records[r].name /\ records'[q].status = "merged"]_vars

\* rows committed in pending_merge whose run_cog_merge message was never
\* sent: no message for the row is queued or running, and no task that has
\* collected the id is still on its way to enqueue it
LostDispatch ==
  {r \in Ids : /\ records[r].status = "pending_merge"
               /\ \A j \in BagToSet(jobs) : j.rec # r
               /\ \A p \in Pollers : r \notin pollIds[p]
               /\ \A a \in Scanners : r \notin scanIds[a]}

\* C26: a row committed in pending_merge whose dispatch was lost does not
\* stay so forever: a run_cog_merge message for it is eventually enqueued
\* or the row leaves pending_merge.
C26_LostDispatchRecovered ==
  \A r \in 1..MaxRecords : (r \in LostDispatch) ~> (r \notin LostDispatch)

\* rows of covariate l after the step
RecordsOfNext(l) == {r \in DOMAIN records' : records'[r].name = l}

\* C27: after a call of force_reexport(l) that returns, every row that the
\* covariate had is deleted and the covariate has exactly one row, a new
\* one in pending_export that carries the id of the newly started Earth
\* Engine task; the rows of the other covariates are unchanged.
C27_ForceReexport ==
  [][\A l \in Layers : \A s3Del \in BOOLEAN : \A left \in 0..MaxTiles :
       ForceReexport(l, s3Del, left, 1) =>
         /\ RecordsOf(l) \cap DOMAIN records' = {}
         /\ \A r \in Ids \ RecordsOf(l) : r \in DOMAIN records' /\ records'[r] = records[r]
         /\ Len(gee') = Len(gee) + 1 /\ gee'[Len(gee')].name = l
         /\ \E q \in DOMAIN records' \ Ids :
              /\ RecordsOfNext(l) = {q}
              /\ records'[q].gee_task_id = Len(gee')
              /\ records'[q].status = "pending_export"]_vars

\* C28: a call of start_gee_export that returns has inserted one row per
\* requested covariate, in pending_export, with the id of the task started
\* for it, and has returned the ids of exactly these rows in request order.
C28_StartGeeExport ==
  [][\A names \in NameLists :
       StartGeeExport(names, Len(names)) =>
         /\ Cardinality(DOMAIN records' \ Ids) = Len(names)
         /\ Len(exportIds') = Len(names)
         /\ \A i \in 1..Len(names) :
              /\ exportIds'[i] \in DOMAIN records' \ Ids
              /\ records'[exportIds'[i]].name = names[i]
              /\ records'[exportIds'[i]].status = "pending_export"
              /\ records'[exportIds'[i]].gee_task_id = Len(gee) + i
              /\ gee'[Len(gee) + i].name = names[i]]_vars

\* the columns that force_remerge clears
Cleared(row) ==
  [row EXCEPT !.status = "pending_merge", !.merged_url = NoUrl, !.size_bytes = Null,
              !.error_message = NoMessage, !.completed_at = FALSE]

\* the step resets row r of covariate l, or inserts it, and enqueues one
\* run_cog_merge message for it
ResetsRow(l, r) ==
  /\ IF r \in Ids
     THEN DOMAIN records' = Ids /\ records'[r] = Cleared(records[r])
     ELSE /\ DOMAIN records' = Ids \cup {r}
          /\ records'[r].name = l /\ records'[r] = Cleared(records'[r])
  /\ \A q \in Ids \ {r} : records'[q] = records[q]
  /\ jobs' = jobs (+) SetToBag({Job(r, "queued", "", 0)})

\* C29: force_remerge(l) resets the row of l with the latest started_at to
\* pending_merge with merged_url, size_bytes, error_message and
\* completed_at cleared, or inserts a pending_merge row when l has none;
\* every other row is unchanged and exactly one run_cog_merge message, for
\* that row, is enqueued.
C29_ForceRemerge ==
  [][\A l \in Layers : \A s3Del \in BOOLEAN :
       ForceRemerge(l, s3Del) =>
         IF RecordsOf(l) = {}
         THEN \E r \in DOMAIN records' \ Ids : ResetsRow(l, r)
         ELSE \E r \in RecordsOf(l) :
                /\ \A q \in RecordsOf(l) : records[q].started_at <= records[r].started_at
                /\ ResetsRow(l, r)]_vars

\* force_remerge was called for a covariate with two rows, the newer one
\* merged: that row is back in pending_merge with its message queued
C29_Witness ==
  /\ ops = 1
  /\ \E r \in Ids :
       /\ records[r].status = "pending_merge" /\ records[r].n_tiles # Null
       /\ records[r].merged_url = NoUrl /\ ~records[r].completed_at
       /\ \E q \in RecordsOf(records[r].name) : q < r
       /\ Job(r, "queued", "", 0) \in BagToSet(jobs)

\* C30: a delete step that raises does not block the reset: force_remerge
\* still resets the row and enqueues the merge when deleting the COG
\* raises, and force_reexport still deletes the rows of the covariate and
\* starts the new export when deleting the COG raises and the tiles are
\* not deleted.
C30_DeleteTolerated ==
  [][\A l \in Layers :
       /\ ForceRemerge(l, FALSE) =>
            \E r \in DOMAIN records' :
              /\ records'[r].name = l /\ records'[r].status = "pending_merge"
              /\ CopiesIn(Job(r, "queued", "", 0), jobs')
                   = CopiesIn(Job(r, "queued", "", 0), jobs) + 1
       /\ ForceReexport(l, FALSE, gcs[l], 1) =>
            /\ RecordsOf(l) \cap DOMAIN records' = {}
            /\ Len(gee') = Len(gee) + 1 /\ gee'[Len(gee')].name = l
            /\ \E q \in DOMAIN records' \ Ids :
                 records'[q].name = l /\ records'[q].gee_task_id = Len(gee')]_vars

\* force_remerge has reset a merged row and queued its merge although the
\* COG could not be deleted and is still in the destination
C30_Witness ==
  /\ ops = 1
  /\ \E r \in Ids :
       /\ records[r].status = "pending_merge" /\ records[r].n_tiles # Null
       /\ S3Key(records[r].name) \in s3
       /\ Job(r, "queued", "", 0) \in BagToSet(jobs)
       /\ \A j \in BagToSet(jobs) : j.pc = "queued"

\* p is a strict prefix of name
StrictPrefix(p, name) == Len(p) < Len(name) /\ SubSeq(name, 1, Len(p)) = p

\* fname is name + decimal digits + ".tif"
TileOf(fname, name) ==
  /\ Len(fname) > Len(name) /\ SubSeq(fname, 1, Len(name)) = name
  /\ fname[Len(fname)] = ".tif"
  /\ \A i \in (Len(name) + 1)..(Len(fname) - 1) : fname[i] = "0"

CountOf(c) == IF c \in DOMAIN listed.counts THEN listed.counts[c] ELSE 0

RuleMatches(fname, c) ==
  /\ Len(fname) > Len(c) /\ SubSeq(fname, 1, Len(c)) = c
  /\ fname = c \o <<".tif">> \/ fname[Len(c) + 1] = "0"

RuleLayer(fname) ==
  LET M == {c \in known : RuleMatches(fname, c)}
  IN IF fname[Len(fname)] # ".tif" \/ M = {} THEN {}
     ELSE {c \in M : \A d \in M : Len(d) <= Len(c)}

\* C32: the counts of list_all_gcs_tiles are those of the reference rule:
\* every .tif filename is counted once, for the longest known name that it
\* equals up to the extension or that a decimal digit follows in it, and
\* every other filename is counted for no name.
C32_ReferenceRule ==
  listed.fn = "all" =>
    \A c \in known : CountOf(c) = Cardinality({f \in objects : c \in RuleLayer(f)})

\* C36: the tile list of one covariate holds exactly the .tif objects that
\* list_all_gcs_tiles counts for that covariate.
C36_SingleLayerList ==
  listed.fn = "one" =>
    listed.tiles = {f \in objects : f[Len(f)] = ".tif" /\ CountedFor(f, known) = listed.name}

Waiting(task) == \E q \in QueueNames : \E i \in DOMAIN queues[q] : queues[q][i] = task
Executing(task) == \E w \in Workers : busy[w] = task

\* C33: run_cog_merge is executed by the workers of the merge queue only,
\* and every poll_gee_exports or auto_merge_unmerged message that waits in
\* a queue is eventually executed, also when no merge ever returns.
C33_NoStarvation ==
  /\ [](\A w \in Workers : busy[w] = "run_cog_merge" => w \in MergeWorkers)
  /\ \A task \in PeriodicTasks : Waiting(task) ~> Executing(task)

\* every merge worker is in a merge, more merges wait, and a poll waits
C33_Witness ==
  /\ \A w \in MergeWorkers : busy[w] = "run_cog_merge"
  /\ queues["merge"] # <<>>
  /\ Waiting("poll_gee_exports")

\* C34: every row that carries a merged_url is in merged.
C34_UrlOnlyWhenMerged ==
  \A r \in Ids : records[r].merged_url # NoUrl => records[r].status = "merged"

\* the response of the given shape for row r names no phase of the
\* vocabulary: a phase outside it, or no phase while the job is not done
NoKnownPhase(r, shape) ==
  shape = "odd" \/ (shape = "bare" /\ ~OpDone(OpOf(r)))

\* the step records for row r what the loop body yields as res
Yields(p, r, res) ==
  /\ res.delta = (IF r \in DOMAIN pollUpd'[p] THEN pollUpd'[p][r] ELSE <<>>)
  /\ res.merge <=> r \in pollIds'[p]

\* C35: a poll cycle that gets, for a row, a phase outside the vocabulary
\* (or no phase while the job is not done) and no error payload records no
\* update for the row and does not collect it for a merge; the commit of a
\* cycle leaves every row without a recorded update as it is, and the
\* dispatch of a cycle enqueues nothing for a row that was not collected.
C35_UnknownPhaseIgnored ==
  [][\A p \in Pollers :
       /\ pollPc[p] = "idle" /\ pollPc'[p] = "commit" =>
            \A r \in Active \ (pollWarn'[p] \ DOMAIN pollUpd'[p]) :
              records[r].gee_task_id # 0 /\ ~OpError(OpOf(r)) =>
                \A shape \in Shapes : \A listOk \in BOOLEAN : \A cut \in BOOLEAN :
                  /\ NoKnownPhase(r, shape)
                  /\ Yields(p, r, PollRow(records[r], OpOf(r), shape, listOk, cut))
                  => /\ r \notin DOMAIN pollUpd'[p]
                     /\ r \notin pollIds'[p]
                     /\ records'[r] = records[r]
                     /\ jobs' = jobs
       /\ pollPc[p] = "commit" /\ pollPc'[p] # "commit" =>
            /\ jobs' = jobs
            /\ \A r \in Ids \ DOMAIN pollUpd[p] : records'[r] = records[r]
       /\ pollPc[p] = "dispatch" /\ pollPc'[p] # "dispatch" =>
            /\ records' = records
            /\ \A r \in 1..MaxRecords :
                 r \notin pollIds[p] => QueuedFor(jobs', r) = QueuedFor(jobs, r)
    ]_vars

\* a cycle is about to commit, and a row in exporting whose job is still
\* PENDING was polled without a warning and without an update: the phase
\* PENDING would have moved it to pending_export, so the response named no
\* phase of the vocabulary
C35_Witness ==
  /\ pollPc[1] = "commit"
  /\ \E r \in Active :
       /\ records[r].gee_task_id # 0
       /\ records[r].status = "exporting"
       /\ OpOf(r).state = "PENDING"
       /\ r \notin DOMAIN pollUpd[1]
       /\ r \notin pollWarn[1]

\* a row of layer l is in pending_export or exporting and its export job
\* has not come to an end at Earth Engine
ExportInProgress(l) ==
  \E r \in Ids :
    /\ records[r].name = l
    /\ records[r].status \in {"pending_export", "exporting"}
    /\ records[r].gee_task_id # 0
    /\ ~OpDone(OpOf(r))

\* C37: while a row of a layer is in pending_export or exporting and its
\* export job is in progress, no step inserts a pending_merge row for the
\* layer and no step enqueues a run_cog_merge message for a row of it.
C37_NoMergeWhileExporting ==
  [][\A l \in Layers :
       ExportInProgress(l) =>
         \A r \in DOMAIN records' :
           records'[r].name = l =>
             /\ r \notin Ids => records'[r].status # "pending_merge"
             /\ QueuedFor(jobs', r) <= QueuedFor(jobs, r)
    ]_vars

\* C38: completed_at is null in every row in pending_export, exporting,
\* pending_merge or merging, and set in every row in merged, failed or
\* cancelled.
C38_CompletedAt ==
  \A r \in Ids :
    /\ records[r].status \in {"pending_export", "exporting", "pending_merge", "merging"}
         => ~records[r].completed_at
    /\ records[r].status \in {"merged", "failed", "cancelled"}
         => records[r].completed_at

\* C39: every export job that a step starts at Earth Engine has, after the
\* step, a row in the table that carries its job id.
C39_StartedJobsRecorded ==
  [][\A j \in DOMAIN gee' \ DOMAIN gee :
       \E r \in DOMAIN records' : records'[r].gee_task_id = j
    ]_vars

====
